---- MODULE Spec2Model ----
(***************************************************************************)
(* State-machine model of winusbpy (src/winusbpy/winusbpy.py): the handle  *)
(* pair of a UsbDevice session, its synchronous transfers and overlapped   *)
(* read, and the enumeration pass of WinUsbPy.  Every action is one public *)
(* method run to completion; the Driver API (the exec_function methods of  *)
(* WinUSBApi) is environment and its results are drawn                     *)
(* nondeterministically.                                                   *)
(***************************************************************************)
EXTENDS Integers, Sequences, FiniteSets, TLC

(* ---------------------------- bounds ----------------------------------- *)
NumSessions == 2          \* UsbDevice objects returned by one enumeration
NumFileHandles == 1       \* distinct valid values CreateFile may return
NumWinusbHandles == 2     \* distinct non-null values the driver may store
MaxLen == 2               \* largest buffer length a caller asks for
MaxIndex == 1             \* largest interface index a caller asks for
MaxAbandoned == 1         \* cap on queued requests whose record was replaced
MaxDevices == 2           \* most device interfaces the driver lists for a GUID

(* ------------------------- program constants --------------------------- *)
INVALID_HANDLE_VALUE == -1
NullHandle == 0
NoInterface == -1
ERROR_IO_INCOMPLETE == 996
ERROR_IO_PENDING == 997
ERROR_ACCESS_DENIED == 5
ERROR_SUCCESS == 0

Sess == 1..NumSessions
FileHandles == 1..NumFileHandles
WinusbHandles == 1..NumWinusbHandles
Bytes == {0, 1}           \* byte values told apart: zero fill and data
Lengths == 0..MaxLen
Indexes == 0..MaxIndex
ErrorCodes == {ERROR_SUCCESS, ERROR_ACCESS_DENIED, ERROR_IO_INCOMPLETE, ERROR_IO_PENDING}
PendingCodes == {ERROR_IO_PENDING, ERROR_IO_INCOMPLETE}
BOOLs == {0, 1}           \* a Win32 BOOL result: 0 is failure

\* The one c_void_p() object built when the class body is evaluated; the
\* dataclass hands this same object to every instance as handle_winusb.
DefaultObj == "c_void_p_default"
Objs == {DefaultObj}

VARIABLES
    handle_file,      \* [Sess -> handle]   UsbDevice.handle_file
    handle_winusb,    \* [Sess -> Objs]     the c_void_p object bound to UsbDevice.handle_winusb
    c_void_p,         \* [Objs -> handle]   .value of each c_void_p object
    interface_index,  \* [Sess -> Int]      UsbDevice.interface_index
    olread_ol,        \* [Sess -> record]   UsbDevice.olread_ol (Overlapped)
    olread_buf,       \* [Sess -> Seq]      UsbDevice.olread_buf
    olread_buflen,    \* [Sess -> Nat]      UsbDevice.olread_buflen
    abandoned,        \* [Sess -> Nat]      queued requests whose Overlapped record was replaced
    attached,         \* Seq of records      the device interfaces the driver lists, by member index
    last              \* the call just made: method, session, driver calls, outcome

vars == <<handle_file, handle_winusb, c_void_p, interface_index,
          olread_ol, olread_buf, olread_buflen, abandoned, attached, last>>

session_vars == <<handle_file, handle_winusb, c_void_p, interface_index>>
olread_vars == <<olread_ol, olread_buf, olread_buflen, abandoned>>

\* self.handle_winusb read by value: what the driver receives as the handle.
winusb(s) == c_void_p[handle_winusb[s]]

\* Variant: the NULL check of write left out.
truthy_always(h) == TRUE

\* bool(self.handle_winusb): a c_void_p is true unless it holds NULL.
truthy(h) == h # NullHandle

\* One Driver API call as logged in last.calls: the function, the handle
\* passed, the BOOL or handle returned, the value stored through an
\* out-parameter and the buffer as the call left it.
Call(fn, h, ret, out, buf) ==
    [fn |-> fn, h |-> h, ret |-> ret, out |-> out, buf |-> buf, err |-> 0]

\* A call that returned 0 and left error code e in the thread.
Failed(fn, h, buf, e) ==
    [fn |-> fn, h |-> h, ret |-> 0, out |-> 0, buf |-> buf, err |-> e]

\* self.get_last_error_code() after a call that left e.
GetLastError(e) == Call("GetLastError", 0, e, 0, <<>>)

Fns(calls) == {calls[i].fn : i \in 1..Len(calls)}

\* What a method call leaves in `last`; kind is the Python type of the value
\* returned, or the class of the exception raised (WinError, ValueError,
\* RuntimeError, AttributeError).
Done(op, s, calls, kind, value) ==
    [op |-> op, sess |-> s, calls |-> calls, kind |-> kind, value |-> value]

\* A call record together with the arguments the caller passed.
Asked(done, args) ==
    [op |-> done.op, sess |-> done.sess, calls |-> done.calls, kind |-> done.kind,
     value |-> done.value, args |-> args]

\* (c_ubyte * n)() and create_string_buffer(n): n zero bytes.
Zeros(n) == [i \in 1..n |-> 0]

\* buf after the driver stored data at its start.
Stored(buf, data) == [i \in 1..Len(buf) |-> IF i <= Len(data) THEN data[i] ELSE buf[i]]

\* buf[0:n]
Slice(buf, n) == SubSeq(buf, 1, IF n < Len(buf) THEN n ELSE Len(buf))

\* What the device may deliver into a buffer of n bytes.
Received(n) == UNION {[1..k -> Bytes] : k \in 0..n}

NoOverlapped == [Internal |-> "noattr", InternalHigh |-> 0]

\* The session objects as constructed, before any call.
Fresh ==
    /\ handle_file = [s \in Sess |-> INVALID_HANDLE_VALUE]
    /\ handle_winusb = [s \in Sess |-> DefaultObj]
    /\ c_void_p = [o \in Objs |-> NullHandle]
    /\ interface_index = [s \in Sess |-> NoInterface]
    /\ olread_ol = [s \in Sess |-> NoOverlapped]
    /\ olread_buf = [s \in Sess |-> <<>>]
    /\ olread_buflen = [s \in Sess |-> 0]
    /\ abandoned = [s \in Sess |-> 0]
    /\ last = Done("new", 1, <<>>, "NoneType", 0)

\* The sessions of devices already picked; nothing is enumerated again.
Init ==
    /\ Fresh
    /\ attached = <<>>

(* ------------------------------ init_device ---------------------------- *)
\* h: what CreateFile returns; r, w: the result of WinUsb_Initialize and the
\* handle it stores through byref(self.handle_winusb); e: the error code the
\* thread holds after a failed call, as GetLastError reports it.
\* Variant: the invalid-handle test never matches.
open_failed_never(h) == FALSE

\* self.handle_file == INVALID_HANDLE_VALUE
open_failed(h) == h = INVALID_HANDLE_VALUE

\* Variant: a failed WinUsb_Initialize reported as False instead of raised.
session_init_error_swallowed(e) == [kind |-> "bool", value |-> FALSE]

\* How init_device ends when WinUsb_Initialize returned 0: WinError() takes
\* its code from the thread's last error.
session_init_error(e) == [kind |-> "WinError", value |-> e]

init_device(s, h, r, w, e) ==
    /\ handle_file' = [handle_file EXCEPT ![s] = h]
    /\ IF open_failed(h)
       THEN /\ last' = Done("init_device", s, <<Call("CreateFile", 0, h, 0, <<>>)>>,
                            "bool", FALSE)
            /\ UNCHANGED c_void_p
       ELSE IF r # 0
       THEN /\ c_void_p' = [c_void_p EXCEPT ![handle_winusb[s]] = w]
            /\ last' = Done("init_device", s,
                            <<Call("CreateFile", 0, h, 0, <<>>),
                              Call("WinUsb_Initialize", h, r, w, <<>>)>>,
                            "bool", TRUE)
       ELSE /\ last' = Done("init_device", s,
                            <<Call("CreateFile", 0, h, 0, <<>>),
                              Failed("WinUsb_Initialize", h, <<>>, e), GetLastError(e)>>,
                            session_init_error(e).kind, session_init_error(e).value)
            /\ UNCHANGED c_void_p
    /\ UNCHANGED <<attached, handle_winusb, interface_index, olread_vars>>

(* ------------------------------ close_device --------------------------- *)
\* Variant: WinUsb_Free skipped when Close_Handle failed.
close_device_short_circuit(s, rf, rw) ==
    LET result_file == Call("Close_Handle", handle_file[s], rf, 0, <<>>)
        result_winusb == Call("WinUsb_Free", winusb(s), rw, 0, <<>>)
    IN  /\ last' = IF rf = 0
                   THEN Done("close_device", s, <<result_file>>, "bool", FALSE)
                   ELSE Done("close_device", s, <<result_file, result_winusb>>, "bool",
                             result_winusb.ret # 0)
        /\ UNCHANGED <<attached, session_vars, olread_vars>>

\* rf, rw: the results of Close_Handle and WinUsb_Free.
close_device(s, rf, rw) ==
    LET result_file == Call("Close_Handle", handle_file[s], rf, 0, <<>>)
        result_winusb == Call("WinUsb_Free", winusb(s), rw, 0, <<>>)
    IN  /\ last' = Done("close_device", s, <<result_file, result_winusb>>, "bool",
                        result_file.ret # 0 /\ result_winusb.ret # 0)
        /\ UNCHANGED <<attached, session_vars, olread_vars>>

(* ---------------------------- change_interface ------------------------- *)
\* Variant: interface_index assigned whatever the driver returned.
change_interface_index_always(s, index, r, w) ==
    /\ c_void_p' = [c_void_p EXCEPT ![handle_winusb[s]] = IF r # 0 THEN w ELSE @]
    /\ interface_index' = [interface_index EXCEPT ![s] = index]
    /\ last' = Asked(Done("change_interface", s,
                          <<Call("WinUsb_GetAssociatedInterface", winusb(s), r, w, <<>>)>>,
                          "bool", r # 0),
                     [index |-> index])
    /\ UNCHANGED <<attached, handle_file, handle_winusb, olread_vars>>

\* r, w: the result of WinUsb_GetAssociatedInterface and the handle it stores
\* through byref(self.handle_winusb).
change_interface(s, index, r, w) ==
    IF r # 0
    THEN /\ c_void_p' = [c_void_p EXCEPT ![handle_winusb[s]] = w]
         /\ interface_index' = [interface_index EXCEPT ![s] = index]
         /\ last' = Asked(Done("change_interface", s,
                               <<Call("WinUsb_GetAssociatedInterface", winusb(s), r, w, <<>>)>>,
                               "bool", TRUE),
                          [index |-> index])
         /\ UNCHANGED <<attached, handle_file, handle_winusb, olread_vars>>
    ELSE /\ last' = Asked(Done("change_interface", s,
                               <<Call("WinUsb_GetAssociatedInterface", winusb(s), r, 0, <<>>)>>,
                               "bool", FALSE),
                          [index |-> index])
         /\ UNCHANGED <<attached, session_vars, olread_vars>>

(* ------------------------ query_interface_settings --------------------- *)
\* temp_handle_winusb is bound to the object self.handle_winusb is bound to,
\* so the handle WinUsb_GetAssociatedInterface stores through
\* byref(temp_handle_winusb) lands in that object.  r1, w: its result and the
\* handle stored; r2: the result of WinUsb_QueryInterfaceSettings.
query_interface_settings(s, index, r1, w, r2) ==
    IF interface_index[s] # NoInterface
    THEN IF interface_index[s] # 0 /\ r1 = 0
         THEN /\ last' = Done("query_interface_settings", s,
                              <<Call("WinUsb_GetAssociatedInterface", winusb(s), r1, 0, <<>>)>>,
                              "bool", FALSE)
              /\ UNCHANGED <<attached, session_vars, olread_vars>>
         ELSE LET temp_handle_winusb == handle_winusb[s]
                  first == IF interface_index[s] # 0
                           THEN <<Call("WinUsb_GetAssociatedInterface", winusb(s), r1, w, <<>>)>>
                           ELSE <<>>
                  queried == IF interface_index[s] # 0 THEN w ELSE winusb(s)
                  second == Call("WinUsb_QueryInterfaceSettings", queried, r2, 0, <<>>)
              IN  /\ c_void_p' = [c_void_p EXCEPT ![temp_handle_winusb] = queried]
                  /\ last' = Done("query_interface_settings", s, first \o <<second>>,
                                  IF r2 # 0 THEN "UsbInterfaceDescriptor" ELSE "NoneType", 0)
                  /\ UNCHANGED <<attached, handle_file, handle_winusb, interface_index, olread_vars>>
    ELSE /\ last' = Done("query_interface_settings", s, <<>>, "NoneType", 0)
         /\ UNCHANGED <<attached, session_vars, olread_vars>>

(* ---------------------------- control_transfer ------------------------- *)
\* The buff argument: None, or the caller's bytes.
NoBuff == [given |-> FALSE, bytes |-> <<>>]
Buff(bytes) == [given |-> TRUE, bytes |-> bytes]

\* (c_ubyte * n)(*bytes): n bytes holding `bytes` and then zeros; ctypes
\* raises IndexError when there are more than n initialisers.
TooManyInitializers(n, bytes) == Len(bytes) > n
ArrayOf(n, bytes) == Stored(Zeros(n), bytes)

\* length: setup_packet.length; r, data: the result of
\* WinUsb_ControlTransfer and the bytes the device returned into the buffer.
\* The call is logged with the request as sent: out is the buffer length
\* passed and buf the bytes of the buffer at the call.
control_transfer(s, length, buff, r, data) ==
    /\ IF buff.given /\ length > 0 /\ TooManyInitializers(length, buff.bytes)
       THEN last' = Asked(Done("control_transfer", s, <<>>, "IndexError", 0),
                          [length |-> length, buff |-> buff])
       ELSE LET sent == IF buff.given
                        THEN IF length > 0 THEN ArrayOf(length, buff.bytes) ELSE Zeros(length)
                        ELSE Zeros(1)
                buffer_length == IF buff.given THEN length ELSE 0
                received == Slice(data, buffer_length)
            IN  last' = Asked(Done("control_transfer", s,
                                   <<Call("WinUsb_ControlTransfer", winusb(s), r,
                                          buffer_length, sent)>>,
                                   "dict",
                                   [result |-> r # 0, buffer |-> Stored(sent, received)]),
                              [length |-> length, buff |-> buff])
    /\ UNCHANGED <<attached, session_vars, olread_vars>>

(* --------------------------------- write ------------------------------- *)
\* data: the caller's bytes; r, written: the result of WinUsb_WritePipe and
\* the count it stores; e: the error code after a failure.
write(s, data, r, written, e) ==
    /\ IF ~truthy(winusb(s))
       THEN last' = Done("write", s, <<>>, "ValueError", 0)
       ELSE IF r # 0
       THEN last' = Done("write", s,
                         <<Call("WinUsb_WritePipe", winusb(s), r, written, data)>>,
                         "int", written)
       ELSE last' = Done("write", s,
                         <<Failed("WinUsb_WritePipe", winusb(s), data, e), GetLastError(e)>>,
                         "WinError", e)
    /\ UNCHANGED <<attached, session_vars, olread_vars>>

(* --------------------------------- read -------------------------------- *)
\* Variant: the whole buffer returned whatever the count.
read_result_whole(read_buffer, count, length_buffer) == read_buffer

\* What read returns once WinUsb_ReadPipe reported success with `count`
\* bytes stored in read_buffer of length_buffer bytes.
read_result(read_buffer, count, length_buffer) ==
    IF count # length_buffer THEN Slice(read_buffer, count) ELSE read_buffer

\* r, data: the result of WinUsb_ReadPipe and the bytes it stored (their
\* number is the count it reports); e: the error code after a failure.
read(s, length_buffer, r, data, e) ==
    /\ IF r # 0
       THEN LET read_buffer == Stored(Zeros(length_buffer), data)
            IN  last' = Done("read", s,
                             <<Call("WinUsb_ReadPipe", winusb(s), r, Len(data), read_buffer)>>,
                             "bytearray", read_result(read_buffer, Len(data), length_buffer))
       ELSE last' = Done("read", s,
                         <<Failed("WinUsb_ReadPipe", winusb(s), Zeros(length_buffer), e),
                           GetLastError(e)>>,
                         IF e # 0 THEN "WinError" ELSE "RuntimeError", e)
    /\ UNCHANGED <<attached, session_vars, olread_vars>>

(* ----------------------------- overlapped read ----------------------- *)
\* The Overlapped record as the driver keeps it: Internal is the state of the
\* request it belongs to ("zeroed": none queued, "pending": queued, "done",
\* "error": finished), InternalHigh the bytes transferred.
Overlapped(state, count) == [Internal |-> state, InternalHigh |-> count]

\* _overlapped_read_do's answer for the result of WinUsb_ReadPipe.
overlapped_read_do_result(result) == result # 0

\* overlapped_read_init with _overlapped_read_do.  r: the result of
\* WinUsb_ReadPipe on a handle opened with FILE_FLAG_OVERLAPPED: non-zero
\* when the read finished at once with data stored, 0 with
\* e = ERROR_IO_PENDING when the request was queued, 0 with any other e when
\* the request was refused.  A request still queued for the record being
\* replaced stays queued in the driver.
overlapped_read_init(s, length_buffer, r, data, e) ==
    LET queued == r = 0 /\ e = ERROR_IO_PENDING
        buf == IF r # 0 THEN Stored(Zeros(length_buffer), data) ELSE Zeros(length_buffer)
        submit == IF r # 0
                  THEN Call("WinUsb_ReadPipe", winusb(s), r, 0, buf)
                  ELSE Failed("WinUsb_ReadPipe", winusb(s), buf, e)
    IN  /\ olread_ol[s].Internal = "pending" => abandoned[s] < MaxAbandoned
        /\ olread_ol' = [olread_ol EXCEPT ![s] =
                            IF r # 0 THEN Overlapped("done", Len(data))
                            ELSE IF queued THEN Overlapped("pending", 0)
                            ELSE Overlapped("zeroed", 0)]
        /\ olread_buf' = [olread_buf EXCEPT ![s] = buf]
        /\ olread_buflen' = [olread_buflen EXCEPT ![s] = length_buffer]
        /\ abandoned' = [abandoned EXCEPT ![s] =
                            IF olread_ol[s].Internal = "pending" THEN @ + 1 ELSE @]
        /\ last' = Done("overlapped_read_init", s, <<submit>>, "bool",
                        overlapped_read_do_result(r))
        /\ UNCHANGED <<attached, session_vars>>

\* What WinUsb_GetOverlappedResult may answer for the record of session s:
\* a queued request may still be queued, or finish now with data or with an
\* error; a finished one answers as it finished; a record with no request
\* reports zero bytes or an error, and an error on the NULL handle.
PollAnswers(s) ==
    LET ol == olread_ol[s]
        pending == {[ret |-> 0, data |-> <<>>, err |-> e] : e \in PendingCodes}
        errors == {[ret |-> 0, data |-> <<>>, err |-> e] : e \in ErrorCodes \ PendingCodes}
        fresh == {[ret |-> 1, data |-> d, err |-> 0] : d \in Received(olread_buflen[s])}
        again == {[ret |-> 1, data |-> Slice(olread_buf[s], ol.InternalHigh), err |-> 0]}
    IN  CASE ol.Internal = "pending" -> pending \cup errors \cup fresh
          [] ol.Internal = "done" -> again
          [] ol.Internal = "error" -> errors
          [] winusb(s) = NullHandle -> errors
          [] OTHER -> again \cup errors

\* Variant: ERROR_IO_INCOMPLETE not recognised as pending.
poll_failure_pending_only(last_error) ==
    IF last_error = ERROR_IO_PENDING
    THEN [kind |-> "str", value |-> ToString(last_error)]
    ELSE [kind |-> "NoneType", value |-> "None"]

\* What overlapped_read returns when WinUsb_GetOverlappedResult returned 0.
poll_failure(last_error) ==
    IF last_error = ERROR_IO_PENDING \/ last_error = ERROR_IO_INCOMPLETE
    THEN [kind |-> "str", value |-> ToString(last_error)]
    ELSE [kind |-> "NoneType", value |-> "None"]

\* a: the answer of WinUsb_GetOverlappedResult.
overlapped_read(s, a) ==
    IF olread_ol[s].Internal = "noattr"
    THEN /\ last' = Done("overlapped_read", s, <<>>, "AttributeError", 0)
         /\ UNCHANGED <<attached, session_vars, olread_vars>>
    ELSE IF a.ret = 0
    THEN /\ olread_ol' = [olread_ol EXCEPT ![s] =
                             IF a.err \in PendingCodes \/ @.Internal = "zeroed" THEN @
                             ELSE Overlapped("error", 0)]
         /\ last' = Done("overlapped_read", s,
                         <<Failed("WinUsb_GetOverlappedResult", winusb(s), olread_buf[s], a.err),
                           GetLastError(a.err)>>,
                         poll_failure(a.err).kind, poll_failure(a.err).value)
         /\ UNCHANGED <<attached, session_vars, olread_buf, olread_buflen, abandoned>>
    ELSE LET buf == Stored(olread_buf[s], a.data)
             rl == Len(a.data)
         IN  /\ olread_ol' = [olread_ol EXCEPT ![s] =
                                 IF @.Internal = "zeroed" THEN @ ELSE Overlapped("done", rl)]
             /\ olread_buf' = [olread_buf EXCEPT ![s] = buf]
             /\ last' = Done("overlapped_read", s,
                             <<Call("WinUsb_GetOverlappedResult", winusb(s), a.ret, rl, buf)>>,
                             "bytes", Slice(buf, rl))
             /\ UNCHANGED <<attached, session_vars, olread_buflen, abandoned>>

(* ------------------------------ enumeration ---------------------------- *)
DIGCF_DEFAULT == 1
DIGCF_PRESENT == 2
DIGCF_ALLCLASSES == 4
DIGCF_PROFILE == 8
DIGCF_DEVICE_INTERFACE == 16

\* _compute_flags: the sum of the flags whose keyword is set, or 0x10 when
\* the sum is 0.
compute_flags(kwargs) ==
    LET value == (IF "default" \in kwargs THEN DIGCF_DEFAULT ELSE 0)
               + (IF "present" \in kwargs THEN DIGCF_PRESENT ELSE 0)
               + (IF "allclasses" \in kwargs THEN DIGCF_ALLCLASSES ELSE 0)
               + (IF "profile" \in kwargs THEN DIGCF_PROFILE ELSE 0)
               + (IF "deviceinterface" \in kwargs THEN DIGCF_DEVICE_INTERFACE ELSE 0)
    IN  IF value # 0 THEN value ELSE DIGCF_DEVICE_INTERFACE

\* Variant: the candidate header sizes smallest first.
cb_sizes_ascending == <<5, 6, 8>>

\* The candidate header sizes a pass starts with.
cb_sizes == <<8, 6, 5>>

\* An attached device interface, as the driver knows it, is a record of its
\* vendor and product identifiers, the set of header sizes the driver
\* accepts for its detail record, and whether it has a friendly name.  The
\* path the driver stores for member i of the set, and its friendly name:
DevicePath(dev, i) == <<"path", dev.vid, dev.pid, i>>
FriendlyName(i) == <<"friendly", i>>

\* A setupapi call in the log: h is the member index the call is about (the
\* flags for SetupDiGetClassDevs), out the cb_size offered.
SetupCall(fn, about, ret, cb_size) == Call(fn, about, ret, cb_size, <<>>)

\* The SetupDiGetDeviceInterfaceDetail calls of the loop over cb_sizes for
\* member i: each size in turn, up to and including the first accepted.
RECURSIVE offers(_, _, _)
offers(sizes, accepts, i) ==
    IF sizes = <<>> THEN <<>>
    ELSE IF Head(sizes) \in accepts
    THEN <<SetupCall("SetupDiGetDeviceInterfaceDetail", i, 1, Head(sizes))>>
    ELSE <<SetupCall("SetupDiGetDeviceInterfaceDetail", i, 0, Head(sizes))>>
         \o offers(Tail(sizes), accepts, i)

\* _get_device_friendly_name: the property when the query succeeds, the
\* path otherwise.
get_device_friendly_name(dev, i, default_name) ==
    IF dev.friendly THEN FriendlyName(i) ELSE default_name

UsbDevice(name, path) == [name |-> name, path |-> path]

\* Variant: the new device put at the front of the list.
prepended(devices, device) == <<device>> \o devices

\* devices.append(device)
appended(devices, device) == Append(devices, device)

\* Variant: the member index advanced by two.
skipped_member_index(i) == i + 2

\* i += 1; member_index = DWORD(i)
next_member_index(i) == i + 1

RECURSIVE enumerate_from(_, _, _, _, _)

\* Variant: a member no size was accepted for is left out and the pass goes on.
skip_member(devs, i, sizes, devices, calls) ==
    enumerate_from(devs, i + 1, sizes, devices, calls)

\* path is None after the loop over cb_sizes: raise ctypes.WinError().
decode_failed(devs, i, sizes, devices, calls) ==
    [calls |-> calls, kind |-> "WinError", value |-> <<>>]

\* The while loop of _enumerate_usb_devices from member index i on, with
\* cb_sizes = sizes and the devices and driver calls so far.  devs is the
\* driver's set: SetupDiEnumDeviceInterfaces succeeds for the indices below
\* its length.
enumerate_from(devs, i, sizes, devices, calls) ==
    IF i >= Len(devs)
    THEN [calls |-> Append(calls, SetupCall("SetupDiEnumDeviceInterfaces", i, 0, 0)),
          kind |-> "list", value |-> devices]
    ELSE LET dev == devs[i + 1]
             tried == offers(sizes, dev.accepts, i)
             ret == IF tried = <<>> THEN 0 ELSE tried[Len(tried)].ret
             cb_size == IF tried = <<>> THEN 0 ELSE tried[Len(tried)].out
             path == DevicePath(dev, i)
             name == get_device_friendly_name(dev, i, path)
             probed == calls
                       \o <<SetupCall("SetupDiEnumDeviceInterfaces", i, 1, 0),
                            SetupCall("SetupDiGetDeviceInterfaceDetail", i, 0, 0)>>
                       \o tried
         IN  IF ret = 0
             THEN decode_failed(devs, i, sizes, devices, probed)
             ELSE enumerate_from(devs, next_member_index(i), <<cb_size>>,
                                 appended(devices, UsbDevice(name, path)),
                                 Append(probed,
                                        SetupCall("SetupDiGetDeviceRegistryProperty", i,
                                                  IF dev.friendly THEN 1 ELSE 0, 0)))

\* get_usb_devices(guid, **kwargs) against the driver's set: the
\* SetupDiGetClassDevs call and the pass over the set it opens.
usb_devices(kwargs) ==
    enumerate_from(attached, 0, cb_sizes, <<>>,
                   <<SetupCall("SetupDiGetClassDevs", compute_flags(kwargs), 1, 0)>>)

get_usb_devices(kwargs) ==
    LET pass == usb_devices(kwargs)
    IN  /\ last' = Asked(Done("get_usb_devices", 0, pass.calls, pass.kind, pass.value),
                         [kwargs |-> kwargs])
        /\ UNCHANGED <<attached, session_vars, olread_vars>>

\* is_device(vid, pid, path): the path holds the vendor and the product
\* identifier.
is_device(vid, pid, path) == path[2] = vid /\ path[3] = pid

\* Variant: every device kept.
unfiltered(devices, vid, pid) == devices

\* [dev for dev in devices if is_device(vid, pid, dev.path)]
filtered(devices, vid, pid) ==
    SelectSeq(devices, LAMBDA dev : is_device(vid, pid, dev.path))

get_usb_devices_filtered(vid, pid, kwargs) ==
    LET pass == usb_devices(kwargs)
    IN  /\ last' = Asked(Done("get_usb_devices_filtered", 0, pass.calls, pass.kind,
                              IF pass.kind = "list" THEN filtered(pass.value, vid, pid)
                              ELSE pass.value),
                         [kwargs |-> kwargs, vid |-> vid, pid |-> pid])
        /\ UNCHANGED <<attached, session_vars, olread_vars>>

(* ------------------------------ specifications ------------------------- *)
\* The driver's answers, drawn only where the method reads them.  A call on
\* the NULL session handle or on INVALID_HANDLE_VALUE fails; on any other
\* handle it may succeed or fail.
OpenResults == FileHandles \cup {INVALID_HANDLE_VALUE}
Results(h) == IF h = NullHandle \/ h = INVALID_HANDLE_VALUE THEN {0} ELSE BOOLs
StoredHandles(r) == IF r # 0 THEN WinusbHandles ELSE {NullHandle}
ErrorsAfter(r) == IF r # 0 THEN {ERROR_SUCCESS} ELSE ErrorCodes
SubmitErrors(r, h) ==
    IF r # 0 THEN {ERROR_SUCCESS}
    ELSE IF h = NullHandle THEN {ERROR_ACCESS_DENIED}
    ELSE {ERROR_IO_PENDING, ERROR_ACCESS_DENIED}
ReceivedIf(r, n) == IF r # 0 THEN Received(n) ELSE {<<>>}
\* What a control transfer may bring back into a buffer of n bytes: some
\* number of data bytes, nothing when the call failed.
Returned(r, n) == IF r # 0 THEN {[i \in 1..k |-> 1] : k \in 0..n} ELSE {<<>>}
Buffs == {NoBuff} \cup {Buff(bytes) : bytes \in Received(MaxLen)}

Lifecycle(S) ==
    \/ \E s \in S, h \in OpenResults :
          \E r \in Results(h) :
             \E w \in StoredHandles(r), e \in ErrorsAfter(r) : init_device(s, h, r, w, e)
    \/ \E s \in S : \E rf \in Results(handle_file[s]), rw \in Results(winusb(s)) :
          close_device(s, rf, rw)
    \/ \E s \in S, index \in Indexes : \E r \in Results(winusb(s)) :
          \E w \in StoredHandles(r) : change_interface(s, index, r, w)
    \/ \E s \in S, index \in Indexes : \E r1 \in Results(winusb(s)), r2 \in Results(winusb(s)) :
          \E w \in StoredHandles(r1) : query_interface_settings(s, index, r1, w, r2)

Transfers(S) ==
    \/ \E s \in S, n \in Lengths : \E r \in Results(winusb(s)) :
          \E data \in [1..n -> Bytes], written \in IF r # 0 THEN 0..n ELSE {0},
             e \in ErrorsAfter(r) : write(s, data, r, written, e)
    \/ \E s \in S, n \in Lengths : \E r \in Results(winusb(s)) :
          \E data \in ReceivedIf(r, n), e \in ErrorsAfter(r) : read(s, n, r, data, e)

ControlTransfers(S) ==
    \E s \in S, length \in Lengths, buff \in Buffs : \E r \in Results(winusb(s)) :
       \E data \in Returned(r, IF buff.given THEN length ELSE 0) :
          control_transfer(s, length, buff, r, data)

OverlappedReads(S) ==
    \/ \E s \in S, n \in Lengths : \E r \in Results(winusb(s)) :
          \E data \in ReceivedIf(r, n), e \in SubmitErrors(r, winusb(s)) :
             overlapped_read_init(s, n, r, data, e)
    \/ \E s \in S : \E a \in PollAnswers(s) : overlapped_read(s, a)

\* The session a caller picked from the enumerated ones.  The calls of the
\* other sessions reach it only through the value held by the c_void_p
\* object, which its own lifecycle calls already vary over every value.
Picked == {CHOOSE s \in Sess : TRUE}

\* One session through its lifecycle and its synchronous transfers.
Next == Lifecycle(Picked) \/ Transfers(Picked)

Spec == Init /\ [][Next]_vars

\* One session through its lifecycle and its control transfers.
NextControl == Lifecycle(Picked) \/ ControlTransfers(Picked)

SpecControl == Init /\ [][NextControl]_vars

\* One session through its lifecycle and its overlapped reads.
NextOverlapped == Lifecycle(Picked) \/ OverlappedReads(Picked)

SpecOverlapped == Init /\ [][NextOverlapped]_vars

\* Every enumerated session through its lifecycle and synchronous transfers.
NextSessions == Lifecycle(Sess) \/ Transfers(Sess)

SpecSessions == Init /\ [][NextSessions]_vars

\* The device sets a driver may list, the identifiers and the keyword
\* arguments a caller passes.
Vids == {"0483", "1a86"}
Pids == {"5740"}
AcceptedSets == {{}} \cup {{cb_sizes[k]} : k \in 1..Len(cb_sizes)}
AttachedDevices == [vid : Vids, pid : Pids, accepts : AcceptedSets, friendly : BOOLEAN]
DeviceSets == UNION {[1..n -> AttachedDevices] : n \in 0..MaxDevices}
KwargsDrawn == {{}, {"present", "deviceinterface"}}

Enumerations ==
    \/ \E kwargs \in KwargsDrawn : get_usb_devices(kwargs)
    \/ \E vid \in Vids, pid \in Pids, kwargs \in KwargsDrawn :
          get_usb_devices_filtered(vid, pid, kwargs)

\* Enumeration passes against a driver whose device set is fixed.
InitEnum ==
    /\ Fresh
    /\ attached \in DeviceSets

NextEnum == Enumerations

SpecEnum == InitEnum /\ [][NextEnum]_vars

(* ================================ claims =============================== *)
OpFailedInit(l) ==
    /\ l.op = "init_device"
    /\ Len(l.calls) >= 2
    /\ l.calls[2].fn = "WinUsb_Initialize"
    /\ l.calls[2].ret = 0

\* C1: close_device calls Close_Handle on the file handle and then
\* WinUsb_Free on the session handle whatever Close_Handle returned, and
\* returns True exactly when both returned non-zero.
C1_CloseDeviceReleasesBoth ==
    last.op = "close_device" =>
        /\ Len(last.calls) = 2
        /\ last.calls[1].fn = "Close_Handle"
        /\ last.calls[1].h = handle_file[last.sess]
        /\ last.calls[2].fn = "WinUsb_Free"
        /\ last.calls[2].h = winusb(last.sess)
        /\ last.kind = "bool"
        /\ last.value = (last.calls[1].ret # 0 /\ last.calls[2].ret # 0)

\* close_device ran with Close_Handle failing and WinUsb_Free succeeding.
C1_Witness ==
    /\ last.op = "close_device"
    /\ last.calls[1].ret = 0
    /\ Len(last.calls) = 2
    /\ last.calls[2].ret # 0
    /\ last.value = FALSE

\* C2: an init_device call whose CreateFile returned INVALID_HANDLE_VALUE
\* returns False, makes no WinUsb_Initialize call and leaves the session
\* handle as it was.
C2_InvalidOpenStopsInit ==
    [][(last'.op = "init_device" /\ last'.calls[1].ret = INVALID_HANDLE_VALUE) =>
          /\ last'.kind = "bool"
          /\ last'.value = FALSE
          /\ "WinUsb_Initialize" \notin Fns(last'.calls)
          /\ c_void_p' = c_void_p]_vars

\* init_device failed to open on a session whose session handle is set.
C2_Witness ==
    /\ last.op = "init_device"
    /\ last.calls[1].ret = INVALID_HANDLE_VALUE
    /\ Len(last.calls) = 1
    /\ winusb(last.sess) # NullHandle

\* C3: an init_device call whose CreateFile succeeded and whose
\* WinUsb_Initialize returned 0 raises WinError with the error code the
\* driver left, does not return True or set the session handle, makes no
\* Close_Handle call and keeps the opened handle in handle_file; a
\* close_device call that follows hands that handle to Close_Handle.
C3_InitFailureKeepsFileHandle ==
    [][/\ OpFailedInit(last') =>
             /\ last'.kind = "WinError"
             /\ last'.value = last'.calls[2].err
             /\ "Close_Handle" \notin Fns(last'.calls)
             /\ last'.calls[1].ret \in FileHandles
             /\ handle_file'[last'.sess] = last'.calls[1].ret
             /\ c_void_p' = c_void_p
       /\ (OpFailedInit(last) /\ last'.op = "close_device" /\ last'.sess = last.sess) =>
             /\ last'.calls[1].fn = "Close_Handle"
             /\ last'.calls[1].h = last.calls[1].ret]_vars

\* init_device raised for a failed WinUsb_Initialize and the file handle is kept.
C3_Witness ==
    /\ OpFailedInit(last)
    /\ last.kind = "WinError"
    /\ last.value = ERROR_ACCESS_DENIED
    /\ handle_file[last.sess] \in FileHandles

\* C4: after every public call on a session its file handle and its session
\* handle are both valid or both invalid, and after close_device both are
\* invalid.
C4_HandlesPaired ==
    last.op # "new" =>
        /\ (handle_file[last.sess] = INVALID_HANDLE_VALUE) <=> (winusb(last.sess) = NullHandle)
        /\ last.op = "close_device" =>
              /\ handle_file[last.sess] = INVALID_HANDLE_VALUE
              /\ winusb(last.sess) = NullHandle

\* C5: init_device, change_interface and close_device on one session leave
\* the file handle and the session handle of every other session as they
\* were.
C5_HandlesNotShared ==
    [][\A s \in Sess :
          (last'.sess # s /\ last'.op \in {"init_device", "change_interface", "close_device"}) =>
              /\ handle_file'[s] = handle_file[s]
              /\ c_void_p'[handle_winusb'[s]] = c_void_p[handle_winusb[s]]]_vars

\* C6: write on a session whose session handle is NULL raises ValueError
\* and makes no Driver API call.
C6_WriteNullHandleRaises ==
    (last.op = "write" /\ winusb(last.sess) = NullHandle) =>
        /\ last.kind = "ValueError"
        /\ last.calls = <<>>

\* write ran on a session whose session handle is NULL.
C6_Witness ==
    /\ last.op = "write"
    /\ winusb(last.sess) = NullHandle
    /\ last.kind = "ValueError"

\* C7: a read whose WinUsb_ReadPipe succeeded with n bytes received into a
\* buffer of L bytes, 0 <= n <= L, returns the first n bytes of the buffer
\* and raises nothing.
C7_ReadReturnsReceivedPrefix ==
    (last.op = "read" /\ last.calls[1].ret # 0) =>
        /\ last.kind = "bytearray"
        /\ last.calls[1].out <= Len(last.calls[1].buf)
        /\ Len(last.value) = last.calls[1].out
        /\ \A i \in 1..last.calls[1].out : last.value[i] = last.calls[1].buf[i]

\* a short read: one non-zero byte received into a buffer of MaxLen bytes.
C7_Witness ==
    /\ last.op = "read"
    /\ last.calls[1].ret # 0
    /\ Len(last.calls[1].buf) = MaxLen
    /\ last.calls[1].out = 1
    /\ last.value = <<1>>

Outstanding(s) ==
    abandoned[s] + (IF olread_ol[s].Internal = "pending" THEN 1 ELSE 0)

\* C9: overlapped_read_init makes one WinUsb_ReadPipe call on a fresh buffer
\* of the length asked for; it returns True when the driver queued the
\* request, and returns False only when the request was refused, with no
\* request queued for the record.
C9_InitReportsSubmission ==
    last.op = "overlapped_read_init" =>
        /\ Len(last.calls) = 1
        /\ last.calls[1].fn = "WinUsb_ReadPipe"
        /\ Len(olread_buf[last.sess]) = olread_buflen[last.sess]
        /\ olread_ol[last.sess].Internal = "pending" => last.value = TRUE
        /\ last.value = FALSE => olread_ol[last.sess].Internal = "zeroed"

\* C10: the driver never holds more than one queued read request of a session.
C10_AtMostOneOutstanding ==
    \A s \in Sess : Outstanding(s) <= 1

\* C15: change_interface makes one WinUsb_GetAssociatedInterface call; when
\* it succeeds the session handle holds the handle the driver stored,
\* interface_index is the index asked for and the call returns True; when it
\* fails the session handle and interface_index are as they were and the
\* call returns False.
C15_ChangeInterfaceSwitchesOrKeeps ==
    [][last'.op = "change_interface" =>
          /\ Len(last'.calls) = 1
          /\ last'.calls[1].fn = "WinUsb_GetAssociatedInterface"
          /\ last'.kind = "bool"
          /\ last'.calls[1].ret # 0 =>
                /\ c_void_p'[handle_winusb'[last'.sess]] = last'.calls[1].out
                /\ interface_index'[last'.sess] = last'.args.index
                /\ last'.value = TRUE
          /\ last'.calls[1].ret = 0 =>
                /\ c_void_p' = c_void_p
                /\ interface_index' = interface_index
                /\ handle_winusb' = handle_winusb
                /\ last'.value = FALSE]_vars

\* change_interface failed on an open session that an earlier call had
\* switched to interface MaxIndex.
C15_Witness ==
    /\ last.op = "change_interface"
    /\ last.calls[1].ret = 0
    /\ last.args.index = 0
    /\ winusb(last.sess) \in WinusbHandles
    /\ interface_index[last.sess] = MaxIndex

\* C16: query_interface_settings leaves the session handle, the file handle
\* and interface_index of its session as they were, whatever interface_index
\* is and whatever the driver returned.
C16_QueryKeepsSession ==
    [][last'.op = "query_interface_settings" =>
          /\ c_void_p'[handle_winusb'[last'.sess]] = c_void_p[handle_winusb[last'.sess]]
          /\ handle_file'[last'.sess] = handle_file[last'.sess]
          /\ interface_index'[last'.sess] = interface_index[last'.sess]]_vars

\* C17: query_interface_settings returns None on every failure path
\* (interface_index is -1, WinUsb_GetAssociatedInterface failed,
\* WinUsb_QueryInterfaceSettings failed), and a descriptor only when every
\* Driver API call it made succeeded.
C17_QueryFailureIsNone ==
    last.op = "query_interface_settings" =>
        /\ last.kind \in {"NoneType", "UsbInterfaceDescriptor"}
        /\ last.kind = "UsbInterfaceDescriptor" <=>
              /\ last.calls # <<>>
              /\ \A i \in 1..Len(last.calls) : last.calls[i].ret # 0

\* C18: control_transfer raises nothing and returns a dict of a boolean
\* result and a buffer, whatever setup_packet.length, buff and the driver's
\* result are; when length is non-zero and buff is given, the request passed
\* to WinUsb_ControlTransfer is length bytes that start with the bytes of
\* buff; otherwise it is a buffer of length zero bytes.
C18_ControlTransferNeverRaises ==
    last.op = "control_transfer" =>
        /\ last.kind = "dict"
        /\ last.value.result \in BOOLEAN
        /\ LET length == last.args.length
               bytes == last.args.buff.bytes
               request == last.calls[1]
           IN  IF length > 0 /\ last.args.buff.given
               THEN /\ request.out = length
                    /\ Len(request.buf) = length
                    /\ \A i \in 1..length :
                          i <= Len(bytes) => request.buf[i] = bytes[i]
               ELSE /\ request.out = length
                    /\ request.buf = Zeros(length)

\* The transfers of a session.
TransferOps == {"read", "write", "control_transfer", "overlapped_read_init"}

\* The call raised an exception of the library's own and reached no Driver
\* API function.
LocallyRejected(l) ==
    /\ l.calls = <<>>
    /\ l.kind \in {"ValueError", "RuntimeError", "AttributeError", "IndexError"}

\* C19: a transfer that is the first call on a session, a transfer that
\* follows close_device on its session, and an init_device that follows an
\* init_device that returned True on its session are rejected with a local
\* error and make no Driver API call.
C19_WrongStateRejectedLocally ==
    [][/\ (last.op = "new" /\ last'.op \in TransferOps) => LocallyRejected(last')
       /\ (/\ last.op = "close_device"
           /\ last'.op \in TransferOps
           /\ last'.sess = last.sess) => LocallyRejected(last')
       /\ (/\ last.op = "init_device"
           /\ last.kind = "bool"
           /\ last.value = TRUE
           /\ last'.op = "init_device"
           /\ last'.sess = last.sess) => LocallyRejected(last')]_vars
\* The enumeration calls: both public methods run the same pass.
EnumOps == {"get_usb_devices", "get_usb_devices_filtered"}

\* The SetupDiEnumDeviceInterfaces calls of a log, in the order made.
EnumCalls(calls) == SelectSeq(calls, LAMBDA c : c.fn = "SetupDiEnumDeviceInterfaces")

\* C11: the list get_usb_devices returns holds one device for each member
\* index SetupDiEnumDeviceInterfaces succeeded for before it first failed, in
\* member-index order, each with the path the driver stored for that member;
\* when the call fails at index 0 the pass returns the empty list and raises
\* nothing.
C11_OneDevicePerMember ==
    last.op = "get_usb_devices" =>
        LET enums == EnumCalls(last.calls)
        IN  /\ last.kind = "list" =>
                  /\ Len(enums) = Len(last.value) + 1
                  /\ enums[Len(enums)].ret = 0
                  /\ \A k \in 1..Len(last.value) :
                        /\ enums[k].ret # 0
                        /\ enums[k].h = k - 1
                        /\ last.value[k].path = DevicePath(attached[k], enums[k].h)
            /\ (enums[1].h = 0 /\ enums[1].ret = 0) =>
                  /\ last.kind = "list"
                  /\ last.value = <<>>

\* a pass returned MaxDevices devices, in member-index order.
C11_Witness ==
    /\ last.op = "get_usb_devices"
    /\ last.kind = "list"
    /\ Len(last.value) = MaxDevices
    /\ last.value[1].path[4] = 0
    /\ last.value[MaxDevices].path[4] = MaxDevices - 1
\* The devices of a returned list, as the set of their paths.
Paths(devices) == {devices[k].path : k \in 1..Len(devices)}

\* C12: with the driver's set fixed, a get_usb_devices_filtered(vid, pid)
\* call returns, in order, the devices of the set whose path holds vid and
\* pid; its devices are among those of a get_usb_devices call made just
\* before it, and a second call with the same arguments returns the same
\* devices.
C12_FilteredIsMatchingSubset ==
    [][(last'.op = "get_usb_devices_filtered" /\ last'.kind = "list") =>
          /\ Paths(last'.value) =
                {DevicePath(attached[k], k - 1) : k \in
                    {j \in 1..Len(attached) :
                        /\ attached[j].vid = last'.args.vid
                        /\ attached[j].pid = last'.args.pid}}
          /\ Len(last'.value) = Cardinality(Paths(last'.value))
          /\ (last.op = "get_usb_devices" /\ last.args.kwargs = last'.args.kwargs) =>
                /\ last.kind = "list"
                /\ Paths(last'.value) \subseteq Paths(last.value)
          /\ (last.op = "get_usb_devices_filtered" /\ last.args = last'.args) =>
                /\ last.kind = "list"
                /\ last.value = last'.value]_vars

\* a filtered call kept one device of MaxDevices and dropped the others.
C12_Witness ==
    /\ last.op = "get_usb_devices_filtered"
    /\ last.kind = "list"
    /\ Len(attached) = MaxDevices
    /\ Len(last.value) = 1
    /\ last.value[1].path[4] = MaxDevices - 1
\* The SetupDiGetDeviceInterfaceDetail calls of a log that offered a header
\* size for member i, in the order made.
OffersFor(calls, i) ==
    SelectSeq(calls, LAMBDA c : /\ c.fn = "SetupDiGetDeviceInterfaceDetail"
                                /\ c.out # 0
                                /\ c.h = i)

\* C13 as stated: for every record of a pass the header sizes are offered in
\* the order 8, 6, 5, each offer following rejected ones only.
C13_SizesOfferedLargestFirst ==
    last.op \in EnumOps =>
        \A i \in 0..(MaxDevices - 1) :
            LET offered == OffersFor(last.calls, i)
            IN  \A k \in 1..Len(offered) :
                   /\ k <= 3
                   /\ offered[k].out = <<8, 6, 5>>[k]
                   /\ k < Len(offered) => offered[k].ret = 0

\* C13: for the first record of a pass the header sizes are offered in the
\* order 8, 6, 5, each offer following rejected ones only; for every later
\* record the size accepted for the record before it is offered and no
\* other.
C13_SizesOfferedUntilAccepted ==
    last.op \in EnumOps =>
        \A i \in 0..(MaxDevices - 1) :
            LET offered == OffersFor(last.calls, i)
                before == OffersFor(last.calls, i - 1)
            IN  IF i = 0
                THEN \A k \in 1..Len(offered) :
                        /\ k <= 3
                        /\ offered[k].out = <<8, 6, 5>>[k]
                        /\ k < Len(offered) => offered[k].ret = 0
                ELSE offered # <<>> =>
                        /\ Len(offered) = 1
                        /\ before[Len(before)].ret # 0
                        /\ offered[1].out = before[Len(before)].out

\* the first record was accepted at size 6 after 8 was rejected, and size 6
\* alone was offered for the last record.
C13_Witness ==
    /\ last.op = "get_usb_devices"
    /\ last.kind = "list"
    /\ Len(last.value) = MaxDevices
    /\ Len(OffersFor(last.calls, 0)) = 2
    /\ OffersFor(last.calls, 0)[2].out = 6
    /\ Len(OffersFor(last.calls, MaxDevices - 1)) = 1
    /\ OffersFor(last.calls, MaxDevices - 1)[1].out = 6
\* Every header size offered for member i of a pass was rejected.
NoSizeAccepted(calls, i) ==
    LET offered == OffersFor(calls, i)
    IN  /\ offered # <<>>
        /\ \A k \in 1..Len(offered) : offered[k].ret = 0

\* C14 as stated: when no header size is accepted for a member the pass
\* goes on: it raises nothing, every later member index is still passed to
\* SetupDiEnumDeviceInterfaces and the list is returned.
C14_DecodeFailureSkipsMember ==
    last.op = "get_usb_devices" =>
        \A i \in 0..(MaxDevices - 1) :
            NoSizeAccepted(last.calls, i) =>
                /\ last.kind = "list"
                /\ \A j \in (i + 1)..Len(attached) :
                      \E k \in 1..Len(last.calls) :
                         /\ last.calls[k].fn = "SetupDiEnumDeviceInterfaces"
                         /\ last.calls[k].h = j

\* C14: when no header size is accepted for a member the pass raises
\* WinError: no Driver API call is made for a later member index and no
\* list is returned.
C14_DecodeFailureAbortsPass ==
    last.op = "get_usb_devices" =>
        \A i \in 0..(MaxDevices - 1) :
            NoSizeAccepted(last.calls, i) =>
                /\ last.kind = "WinError"
                /\ last.value = <<>>
                /\ \A k \in 1..Len(last.calls) :
                      last.calls[k].fn # "SetupDiGetClassDevs" => last.calls[k].h <= i

\* all three sizes were rejected for member 0 of a set whose last member is
\* decodable, and the pass raised.
C14_Witness ==
    /\ last.op = "get_usb_devices"
    /\ Len(attached) = MaxDevices
    /\ attached[MaxDevices].accepts # {}
    /\ Len(OffersFor(last.calls, 0)) = 3
    /\ NoSizeAccepted(last.calls, 0)
    /\ last.kind = "WinError"
\* C20: for every record after the first the size accepted for the record
\* before it is offered first; a record rejected at that size is offered
\* the other candidate sizes; and a pass over records that each have an
\* accepted size among 8, 6, 5 raises no decode failure.
C20_CachedSizeReverified ==
    last.op = "get_usb_devices" =>
        /\ \A i \in 1..(MaxDevices - 1) :
              LET offered == OffersFor(last.calls, i)
                  before == OffersFor(last.calls, i - 1)
              IN  offered # <<>> =>
                     /\ offered[1].out = before[Len(before)].out
                     /\ offered[1].ret = 0 => Len(offered) > 1
        /\ (\A k \in 1..Len(attached) : attached[k].accepts \cap {8, 6, 5} # {}) =>
              last.kind = "list"
\* C21: a pass passes the member indices 0, 1, 2, ... to
\* SetupDiEnumDeviceInterfaces, each once and in steps of one; the first call
\* that fails is the last one, and no Driver API call is made for a higher
\* index; when no decode fails the pass ends with the failing call at the
\* index after the last member and returns its list.
C21_IndicesInStepsOfOne ==
    last.op \in EnumOps =>
        LET enums == EnumCalls(last.calls)
        IN  /\ enums # <<>>
            /\ \A k \in 1..Len(enums) :
                  /\ enums[k].h = k - 1
                  /\ enums[k].ret = 0 => k = Len(enums)
            /\ \A k \in 1..Len(last.calls) :
                  last.calls[k].fn # "SetupDiGetClassDevs" =>
                      last.calls[k].h <= enums[Len(enums)].h
            /\ (\A i \in 0..(MaxDevices - 1) : ~NoSizeAccepted(last.calls, i)) =>
                  /\ last.kind = "list"
                  /\ enums[Len(enums)].ret = 0
                  /\ enums[Len(enums)].h = Len(attached)

\* a pass asked for the indices 0 to MaxDevices and returned after the call
\* at index MaxDevices failed.
C21_Witness ==
    /\ last.op \in EnumOps
    /\ last.kind = "list"
    /\ Len(EnumCalls(last.calls)) = MaxDevices + 1
    /\ EnumCalls(last.calls)[MaxDevices + 1].h = MaxDevices
    /\ EnumCalls(last.calls)[MaxDevices + 1].ret = 0
====
